---- MODULE Spec2Model ----
(***************************************************************************)
(* Content lifecycle engine of the headless CMS: the Article aggregate,    *)
(* its status state machine, the permission guard, the append-only version *)
(* store and optimistic concurrency on currentVersion.                     *)
(*                                                                         *)
(* The domain layer of the repository holds the types (ArticleStatus, the  *)
(* five ArticleTransition types, the DomainError constructors, Result) and *)
(* the entity helpers (createDraftArticle, isEditable, canAuthorEdit, ...).*)
(* The operations update / transition / restore / rollback / recordVersion *)
(* / canPerform are not in the source tree; they are modelled from the     *)
(* specification (sections 4.3 - 4.6, 5, 6) on top of the source's types.  *)
(***************************************************************************)
EXTENDS Integers, Sequences, FiniteSets, TLC

(***************************************************************************)
(* Bounds of the model.                                                    *)
(***************************************************************************)
\* Calls are made while the stored currentVersion is below MaxVersion.
MaxVersion == 5
\* A caller commits on an article it loaded at most MaxStale commits ago.
MaxStale == 1

(***************************************************************************)
(* Small input domains.                                                    *)
(***************************************************************************)
\* Sentinel for an optional field that is not given (undefined).
Absent == "absent"
\* Sentinel for null.
Null == "null"

\* Actors: an author id with its role.
Actors ==
  { [id |-> "w1", role |-> "writer"],
    [id |-> "w2", role |-> "writer"],
    [id |-> "e1", role |-> "editor"],
    [id |-> "p1", role |-> "publisher"],
    [id |-> "ad", role |-> "admin"] }

Reviewers == {"e1"}
Urls == {"/tech/a1"}
Reasons == {"outdated"}
EditableBySets == { <<"w1">>, <<"w2">> }


(***************************************************************************)
(* Result type and domain errors (values, never exceptions).               *)
(***************************************************************************)
Ok(value) == [ok |-> TRUE, value |-> value]

Err(error) == [ok |-> FALSE, error |-> error]

validationError(message) == [type |-> "ValidationError", message |-> message]

notFoundError(entityType, entityId) ==
  [type |-> "NotFoundError", entityType |-> entityType, entityId |-> entityId]

conflictError(field, message) ==
  [type |-> "ConflictError", field |-> field, message |-> message]

unauthorizedError(userId, requiredPermission) ==
  [type |-> "UnauthorizedError", userId |-> userId,
   requiredPermission |-> requiredPermission]

\* The result is a failure of the given error type.
Failed(result, errorType) == ~result.ok /\ result.error.type = errorType

(***************************************************************************)
(* ArticleStatus: a discriminated union with four variants; every variant  *)
(* carries only its own fields.                                            *)
(***************************************************************************)
DraftStatus(editableBy) == [status |-> "draft", editableBy |-> editableBy]

\* A reviewing status that still carries the editors of the draft.
ReviewingStatusKeepsEditors(reviewer, submittedAt, submittedBy) ==
  [status |-> "reviewing", reviewer |-> reviewer,
   submittedAt |-> submittedAt, submittedBy |-> submittedBy,
   editableBy |-> <<submittedBy>>]

ReviewingStatus(reviewer, submittedAt, submittedBy) ==
  [status |-> "reviewing", reviewer |-> reviewer,
   submittedAt |-> submittedAt, submittedBy |-> submittedBy]

PublishedStatus(publishedAt, publishedBy, url) ==
  [status |-> "published", publishedAt |-> publishedAt,
   publishedBy |-> publishedBy, url |-> url]

\* ArchivedStatus that always records a draft as the previous status.
ArchivedStatusFromDraft(archivedAt, archivedBy, reason, previousStatus) ==
  [status |-> "archived", archivedAt |-> archivedAt, archivedBy |-> archivedBy,
   reason |-> reason, previousStatus |-> "draft"]

\* ArchivedStatus that does not record the previous status.
ArchivedStatusNoOrigin(archivedAt, archivedBy, reason, previousStatus) ==
  [status |-> "archived", archivedAt |-> archivedAt, archivedBy |-> archivedBy,
   reason |-> reason]

ArchivedStatus(archivedAt, archivedBy, reason, previousStatus) ==
  [status |-> "archived", archivedAt |-> archivedAt, archivedBy |-> archivedBy,
   reason |-> reason, previousStatus |-> previousStatus]

isDraft(status) == status.status = "draft"

isUnderReview(status) == status.status = "reviewing"

isPublishedStatus(status) == status.status = "published"

isArchivedStatus(status) == status.status = "archived"

\* null where a Date is expected; every Date of the model is >= 0.
NullDate == -1

\* getPublishedDate(status) of article-status.type.ts
getPublishedDateOfStatus(status) ==
  IF isPublishedStatus(status) THEN status.publishedAt ELSE NullDate

(***************************************************************************)
(* ArticleTransition: the union of the five transition types.  Each type   *)
(* fixes the variant of its `from` and of its `to` status.                 *)
(***************************************************************************)
TransitionKinds ==
  {"submitForReview", "approveAndPublish", "rejectReview",
   "archiveDraft", "archivePublished"}

\* EdgeFrom with approveAndPublish declared on a draft.
EdgeFromPublishesDrafts(edge) ==
  CASE edge = "submitForReview"   -> "draft"
    [] edge = "approveAndPublish" -> "draft"
    [] edge = "rejectReview"      -> "reviewing"
    [] edge = "archiveDraft"      -> "draft"
    [] edge = "archivePublished"  -> "published"

\* The variant of `from` declared by the transition type of the edge.
EdgeFrom(edge) ==
  CASE edge = "submitForReview"   -> "draft"
    [] edge = "approveAndPublish" -> "reviewing"
    [] edge = "rejectReview"      -> "reviewing"
    [] edge = "archiveDraft"      -> "draft"
    [] edge = "archivePublished"  -> "published"

\* EdgeTo with submitForReview declared to end in published.
EdgeToSkipsReview(edge) ==
  CASE edge = "submitForReview"   -> "published"
    [] edge = "approveAndPublish" -> "published"
    [] edge = "rejectReview"      -> "draft"
    [] edge = "archiveDraft"      -> "archived"
    [] edge = "archivePublished"  -> "archived"

\* The variant of `to` declared by the transition type of the edge.
EdgeTo(edge) ==
  CASE edge = "submitForReview"   -> "reviewing"
    [] edge = "approveAndPublish" -> "published"
    [] edge = "rejectReview"      -> "draft"
    [] edge = "archiveDraft"      -> "archived"
    [] edge = "archivePublished"  -> "archived"

isSubmitForReview(transition) ==
  transition.from.status = "draft" /\ transition.to.status = "reviewing"

isApproveAndPublish(transition) ==
  transition.from.status = "reviewing" /\ transition.to.status = "published"

isRejectReview(transition) ==
  transition.from.status = "reviewing" /\ transition.to.status = "draft"

\* isArchiveDraft that looks at the destination only.
isArchiveDraftAnySource(transition) ==
  transition.to.status = "archived"

isArchiveDraft(transition) ==
  transition.from.status = "draft" /\ transition.to.status = "archived"

isArchivePublished(transition) ==
  transition.from.status = "published" /\ transition.to.status = "archived"

(***************************************************************************)
(* Article entity.                                                         *)
(***************************************************************************)
ArticleType == {"news", "opinion", "tutorial", "review"}

\* Array.prototype.includes
includes(seq, x) == \E i \in DOMAIN seq : seq[i] = x

\* data.field ?? fallback, for an optional field of the create data.
OrElse(data, field, fallback) ==
  IF field \in DOMAIN data THEN data[field] ELSE fallback

\* Object spread { ...base, ...over }: the keys of `over` win.
Spread(base, over) ==
  [k \in (DOMAIN base) \cup (DOMAIN over) |->
     IF k \in DOMAIN over THEN over[k] ELSE base[k]]

\* createDraftArticle that lets nobody edit the new draft.
createDraftArticleNoEditors(data, now) ==
  [ id             |-> data.id,
    type           |-> data.type,
    slug           |-> data.slug,
    title          |-> data.title,
    subtitle       |-> OrElse(data, "subtitle", Absent),
    metadata       |-> data.metadata,
    content        |-> data.content,
    authors        |-> data.authors,
    categories     |-> OrElse(data, "categories", <<>>),
    tags           |-> OrElse(data, "tags", <<>>),
    status         |-> DraftStatus(<<>>),
    currentVersion |-> 1,
    featuredImage  |-> OrElse(data, "featuredImage", Absent),
    seo            |-> Spread([keywords |-> <<>>], OrElse(data, "seo", <<>>)),
    createdAt      |-> now,
    updatedAt      |-> now ]

\* createDraftArticle that starts the version counter at 0.
createDraftArticleVersionZero(data, now) ==
  [ id             |-> data.id,
    type           |-> data.type,
    slug           |-> data.slug,
    title          |-> data.title,
    subtitle       |-> OrElse(data, "subtitle", Absent),
    metadata       |-> data.metadata,
    content        |-> data.content,
    authors        |-> data.authors,
    categories     |-> OrElse(data, "categories", <<>>),
    tags           |-> OrElse(data, "tags", <<>>),
    status         |-> DraftStatus(data.authors),
    currentVersion |-> 0,
    featuredImage  |-> OrElse(data, "featuredImage", Absent),
    seo            |-> Spread([keywords |-> <<>>], OrElse(data, "seo", <<>>)),
    createdAt      |-> now,
    updatedAt      |-> now ]

\* createDraftArticle(data) at the instant `now` (new Date()).
createDraftArticle(data, now) ==
  [ id             |-> data.id,
    type           |-> data.type,
    slug           |-> data.slug,
    title          |-> data.title,
    subtitle       |-> OrElse(data, "subtitle", Absent),
    metadata       |-> data.metadata,
    content        |-> data.content,
    authors        |-> data.authors,
    categories     |-> OrElse(data, "categories", <<>>),
    tags           |-> OrElse(data, "tags", <<>>),
    status         |-> DraftStatus(data.authors),
    currentVersion |-> 1,
    featuredImage  |-> OrElse(data, "featuredImage", Absent),
    seo            |-> Spread([keywords |-> <<>>], OrElse(data, "seo", <<>>)),
    createdAt      |-> now,
    updatedAt      |-> now ]

\* isEditable that only excludes archived articles.
isEditableUnlessArchived(article) == article.status.status # "archived"

isEditable(article) == article.status.status = "draft"

\* isPublished that also answers true for an archived article.
isPublishedEver(article) == article.status.status \in {"published", "archived"}

isPublished(article) == article.status.status = "published"

isArchived(article) == article.status.status = "archived"

\* getPublishedUrl that answers for archived articles as well.
getPublishedUrlOfArchived(article) ==
  IF article.status.status \in {"published", "archived"}
    THEN OrElse(article.status, "url", "/archive")
    ELSE Null

getPublishedUrl(article) ==
  IF article.status.status = "published" THEN article.status.url ELSE Null

getPublishedDate(article) ==
  IF article.status.status = "published"
    THEN article.status.publishedAt
    ELSE NullDate

\* canAuthorEdit that asks whether the author wrote the article.
canAuthorEditByAuthorship(article, authorId) ==
  includes(article.authors, authorId)

\* canAuthorEdit that does not look at editableBy.
canAuthorEditAnyDraft(article, authorId) == article.status.status = "draft"

canAuthorEdit(article, authorId) ==
  IF article.status.status # "draft"
    THEN FALSE
    ELSE includes(article.status.editableBy, authorId)

(***************************************************************************)
(* Permission engine (specification 4.6): a static role -> permission      *)
(* table; admin is not special-cased, its set is simply complete.          *)
(***************************************************************************)
Permissions ==
  {"article:create", "article:edit:own", "article:edit:any",
   "article:publish", "article:delete", "author:manage"}

RolePermissions(role) ==
  CASE role = "writer"    -> {"article:create", "article:edit:own"}
    [] role = "editor"    -> {"article:create", "article:edit:own",
                              "article:edit:any", "article:delete"}
    [] role = "publisher" -> {"article:create", "article:edit:own",
                              "article:edit:any", "article:delete",
                              "article:publish"}
    [] role = "admin"     -> Permissions

canPerform(role, permission) == permission \in RolePermissions(role)

(***************************************************************************)
(* Status state machine (specification 4.4).                               *)
(***************************************************************************)
\* The permission an edge requires.
RequiredPermission(edge) ==
  CASE edge = "submitForReview"   -> "article:edit:any"
    [] edge = "approveAndPublish" -> "article:publish"
    [] edge = "rejectReview"      -> "article:edit:any"
    [] edge = "archiveDraft"      -> "article:edit:any"
    [] edge = "archivePublished"  -> "article:delete"
    [] edge = "restore"           -> "author:manage"

\* submitForReview is also open to an author who may edit the draft.
Permitted(edge, article, actor) ==
  \/ canPerform(actor.role, RequiredPermission(edge))
  \/ edge = "submitForReview" /\ canAuthorEdit(article, actor.id)

\* (c) the destination variant, carrying only its own fields, timestamped now.
Destination(edge, article, actor, payload, now) ==
  CASE EdgeTo(edge) = "reviewing" ->
         ReviewingStatus(payload.reviewer, now, actor.id)
    [] EdgeTo(edge) = "published" ->
         PublishedStatus(now, actor.id, payload.url)
    [] EdgeTo(edge) = "draft" ->
         DraftStatus(payload.editableBy)
    [] EdgeTo(edge) = "archived" ->
         ArchivedStatus(now, actor.id, payload.reason, article.status.status)

\* transition: (a) the edge's source, (b) the permission, (c) the destination.
TransitionStatus(edge, article, actor, payload, now) ==
  IF article.status.status # EdgeFrom(edge)
    THEN Err(conflictError("status", "illegal transition"))
  ELSE IF ~Permitted(edge, article, actor)
    THEN Err(unauthorizedError(actor.id, RequiredPermission(edge)))
  ELSE Ok(Destination(edge, article, actor, payload, now))

\* restore: archived -> previousStatus.  The archived variant keeps neither
\* editableBy nor url / publishedAt: the restored draft is editable by the
\* article's authors, and the restored publication is `republished`, which
\* the caller re-derives (the policy is left open by the specification).
RestoreStatus(article, actor, republished) ==
  IF article.status.status # "archived"
    THEN Err(conflictError("status", "illegal transition"))
  ELSE IF ~canPerform(actor.role, RequiredPermission("restore"))
    THEN Err(unauthorizedError(actor.id, RequiredPermission("restore")))
  ELSE IF article.status.previousStatus = "draft"
    THEN Ok(DraftStatus(article.authors))
  ELSE Ok(republished)

(***************************************************************************)
(* Content type registry (specification 4.2): the shape of metadata and    *)
(* content is determined by the type tag.                                  *)
(***************************************************************************)
\* A registry check that looks at the metadata only.
MatchesRegistryMetadataOnly(type, metadata, content) ==
  /\ type \in ArticleType
  /\ metadata.shape = type

MatchesRegistry(type, metadata, content) ==
  /\ type \in ArticleType
  /\ metadata.shape = type
  /\ content.shape = type

(***************************************************************************)
(* Article aggregate operations (specification 4.3, 4.5).  Each is a pure  *)
(* function of the article the caller loaded; the result is committed by   *)
(* the repository's compare-and-swap on currentVersion.                    *)
(***************************************************************************)
\* create(data): ValidationError on a shape mismatch or an absent slug.
CreateArticle(data, now) ==
  IF "slug" \notin DOMAIN data
    THEN Err(validationError("slug is required"))
  ELSE IF ~MatchesRegistry(data.type, data.metadata, data.content)
    THEN Err(validationError("shape does not match the content type"))
  ELSE Ok(createDraftArticle(data, now))

\* The next state of the aggregate after a committed mutation.
Mutated(article, changes, now) ==
  Spread(article, Spread(changes,
    [currentVersion |-> article.currentVersion + 1, updatedAt |-> now]))

\* Merge of an update patch: plain fields are replaced, metadata and content
\* are merged key by key (Partial<...>).
MergePatch(article, patch) ==
  [k \in DOMAIN patch |->
     IF k \in {"metadata", "content"} THEN Spread(article[k], patch[k])
     ELSE patch[k]]

UpdateAllowed(article, actor) ==
  /\ isEditable(article)
  /\ \/ canAuthorEdit(article, actor.id)
     \/ canPerform(actor.role, "article:edit:any")

\* updateContent / updateMetadata.
UpdateArticle(article, patch, actor, now) ==
  IF ~UpdateAllowed(article, actor)
    THEN Err(unauthorizedError(actor.id, "article:edit:any"))
  ELSE Ok(Mutated(article, MergePatch(article, patch), now))

\* transition(article, edgeKind, ..., actor, payload).
TransitionArticle(article, edge, actor, payload, now) ==
  LET r == TransitionStatus(edge, article, actor, payload, now)
  IN  IF r.ok THEN Ok(Mutated(article, [status |-> r.value], now)) ELSE r

RestoreArticle(article, actor, republished, now) ==
  LET r == RestoreStatus(article, actor, republished)
  IN  IF r.ok THEN Ok(Mutated(article, [status |-> r.value], now)) ELSE r

\* rollback that reverts to the snapshot, version number included.
RollbackRenumbers(article, history, targetVersion, actor, now) ==
  IF ~canPerform(actor.role, "article:edit:any")
    THEN Err(unauthorizedError(actor.id, "article:edit:any"))
  ELSE IF ~(\E i \in DOMAIN history : history[i].version = targetVersion)
    THEN Err(notFoundError("ArticleVersion", article.id))
  ELSE LET v == CHOOSE e \in { history[i] : i \in DOMAIN history } :
                  e.version = targetVersion
       IN  Ok(v.snapshot)

\* rollback(article, history, targetVersion, actor): the target snapshot's
\* metadata and content become a new state of the article.
RollbackArticle(article, history, targetVersion, actor, now) ==
  IF ~canPerform(actor.role, "article:edit:any")
    THEN Err(unauthorizedError(actor.id, "article:edit:any"))
  ELSE IF ~(\E i \in DOMAIN history : history[i].version = targetVersion)
    THEN Err(notFoundError("ArticleVersion", article.id))
  ELSE LET v == CHOOSE e \in { history[i] : i \in DOMAIN history } :
                  e.version = targetVersion
       IN  IF ~MatchesRegistry(article.type, v.snapshot.metadata,
                               v.snapshot.content)
             THEN Err(validationError("snapshot does not match the registry"))
           ELSE Ok(Mutated(article,
                     [metadata |-> v.snapshot.metadata,
                      content  |-> v.snapshot.content], now))

(***************************************************************************)
(* Version store (specification 4.5): append-only.                         *)
(***************************************************************************)
\* recordVersion that writes over the latest entry.
recordVersionOverwrites(history, article, changedBy, now) ==
  IF history = <<>>
    THEN <<[articleId |-> article.id, version |-> 1,
            snapshot |-> article, changedBy |-> changedBy, createdAt |-> now]>>
    ELSE [history EXCEPT ![Len(history)] =
            [articleId |-> article.id, version |-> Len(history),
             snapshot |-> article, changedBy |-> changedBy, createdAt |-> now]]

recordVersion(history, article, changedBy, now) ==
  Append(history,
    [articleId |-> article.id, version |-> Len(history) + 1,
     snapshot |-> article, changedBy |-> changedBy, createdAt |-> now])

(***************************************************************************)
(* Inputs.                                                                 *)
(***************************************************************************)
NewsData ==
  [ id       |-> "a1",
    type     |-> "news",
    slug     |-> "new-release-announced",
    title    |-> "New Release Announced",
    metadata |-> [shape |-> "news", source |-> "Official Blog"],
    content  |-> [shape |-> "news", lead |-> "l1", body |-> "b1"],
    authors  |-> <<"w1">> ]

TutorialData ==
  [ id         |-> "a1",
    type       |-> "tutorial",
    slug       |-> "advanced-typescript",
    title      |-> "Advanced TypeScript",
    metadata   |-> [shape |-> "tutorial", difficulty |-> "advanced"],
    content    |-> [shape |-> "tutorial", introduction |-> "i1",
                    conclusion |-> "k1"],
    authors    |-> <<>>,
    categories |-> <<"cat1">>,
    seo        |-> [metaTitle |-> "TS"] ]

\* The create data the model draws from: two well-formed inputs, one whose
\* metadata has the shape of another type, one whose content has, and one
\* without slug.
CreateInputs ==
  { NewsData,
    TutorialData,
    Spread(NewsData, [metadata |-> TutorialData.metadata]),
    Spread(TutorialData, [content |-> NewsData.content]),
    [k \in (DOMAIN NewsData) \ {"slug"} |-> NewsData[k]] }

\* Patches that also carry a type tag, which UpdateArticleData excludes.
PatchesRetyping(type) ==
  IF type = "news"
    THEN { [content |-> [lead |-> "l2"]],
           [title |-> "Updated", type |-> "opinion"] }
    ELSE { [content |-> [introduction |-> "i2"]],
           [title |-> "Updated", metadata |-> [difficulty |-> "beginner"]] }

\* The update patches the model draws from, by content type.
Patches(type) ==
  IF type = "news"
    THEN { [content |-> [lead |-> "l2"]],
           [title |-> "Updated", metadata |-> [source |-> "Reuters"]] }
    ELSE { [content |-> [introduction |-> "i2"]],
           [title |-> "Updated", metadata |-> [difficulty |-> "beginner"]] }

Payloads ==
  [reviewer : Reviewers, url : Urls, reason : Reasons,
   editableBy : EditableBySets]

\* The actors the model lets attempt each operation: for every permission
\* the least role that holds it and the roles just below it.
ActorsOf(ids) == { a \in Actors : a.id \in ids }

EditorialActors == ActorsOf({"w1", "e1"})

ActorsFor(edge) ==
  CASE edge = "submitForReview"   -> ActorsOf({"w1", "w2", "e1"})
    [] edge = "approveAndPublish" -> ActorsOf({"e1", "p1"})
    [] OTHER                      -> EditorialActors

(***************************************************************************)
(* State.  The core is a set of pure synchronous functions; the repository *)
(* holds the article and commits a result by compare-and-swap on the       *)
(* version the caller loaded.  A caller may have loaded the article before *)
(* other callers committed, so a call is made on any state of the article  *)
(* that was stored at most MaxStale commits ago.                           *)
(***************************************************************************)
VARIABLES
  article,    \* the stored aggregate (repository), NoArticle before create
  versions,   \* the version store of the article: a sequence of ArticleVersion
  past,       \* what a caller may have loaded: every state the repository
              \* held, as [article, history]
  now,        \* the clock
  last,       \* the call in progress with its result, NoCall between calls
  won         \* per expected version: the calls whose commit succeeded

vars == <<article, versions, past, now, last, won>>

NoArticle == [absent |-> TRUE]

NoCall == [op |-> "none"]

Init ==
  /\ article = NoArticle
  /\ versions = <<>>
  /\ past = <<>>
  /\ now = 0
  /\ last = NoCall
  /\ won = [v \in 1..MaxVersion |-> <<>>]

\* Who version 1 is attributed to.
Creator(data) == IF data.authors # <<>> THEN data.authors[1] ELSE "system"

\* create(data)
Create(data) ==
  /\ last = NoCall
  /\ article = NoArticle
  /\ LET r == CreateArticle(data, now)
     IN  /\ last' = [op |-> "create", data |-> data, result |-> r]
         /\ IF r.ok
              THEN /\ article' = r.value
                   /\ versions' = recordVersion(versions, r.value, Creator(data), now)
                   /\ past' = Append(past, [article |-> article', history |-> versions'])
                   /\ now' = now + 1
              ELSE UNCHANGED <<article, versions, past, now>>
  /\ UNCHANGED won

\* The states of the article a caller may hold when it makes a call.
Loadable ==
  { i \in DOMAIN past : i + MaxStale >= Len(past) }

CanCall ==
  /\ last = NoCall
  /\ article # NoArticle
  /\ article.currentVersion < MaxVersion

\* Repository.save without the comparison of versions.
SaveResultWithoutCompare(given, r) ==
  IF ~r.ok THEN r
  ELSE Ok([article |-> r.value, version |-> Len(versions) + 1])

\* Repository.save(article, expectedVersion): compare-and-swap on the version
\* the caller loaded.  `r` is the result of the pure operation on the loaded
\* article; a failure of the operation is returned as it is.
SaveResult(given, r) ==
  IF ~r.ok THEN r
  ELSE IF article.currentVersion # given.currentVersion
    THEN Err(conflictError("currentVersion", "stale write"))
  ELSE Ok([article |-> r.value, version |-> Len(versions) + 1])

\* A version store that records the snapshot before the commit is decided.
VersionsAfterEager(out, r, changedBy) ==
  IF r.ok THEN recordVersion(versions, r.value, changedBy, now) ELSE versions

\* The version store after a call: the snapshot is recorded with the commit.
VersionsAfter(out, r, changedBy) ==
  IF out.ok THEN recordVersion(versions, r.value, changedBy, now) ELSE versions

\* The end of every mutating call on the loaded article `given`.
Commit(given, call, r) ==
  LET expected == given.currentVersion
      out == SaveResult(given, r)
  IN  /\ last' = Spread(call, [expected |-> expected, given |-> given,
                               valid |-> r.ok, result |-> out])
      /\ versions' = VersionsAfter(out, r, call.actor.id)
      /\ IF out.ok
           THEN /\ article' = r.value
                /\ past' = Append(past, [article |-> article', history |-> versions'])
                /\ now' = now + 1
                /\ won' = [won EXCEPT ![expected] =
                             Append(@, [op |-> call.op, article |-> r.value])]
           ELSE UNCHANGED <<article, past, now, won>>

\* update(article, expectedVersion, patch, actor)
Update(i, patch, actor) ==
  /\ CanCall
  /\ patch \in Patches(past[i].article.type)
  /\ Commit(past[i].article,
            [op |-> "update", patch |-> patch, actor |-> actor],
            UpdateArticle(past[i].article, patch, actor, now))

\* transition(article, edgeKind, expectedVersion, actor, payload)
Transition(i, edge, actor, payload) ==
  /\ CanCall
  /\ Commit(past[i].article,
            [op |-> "transition", edge |-> edge, actor |-> actor],
            TransitionArticle(past[i].article, edge, actor, payload, now))

\* The publications a restore may re-derive: a fresh one, or the one of a
\* published snapshot of the loaded history.
Republications(history, actor) ==
  { PublishedStatus(now, actor.id, u) : u \in Urls }
    \cup { history[j].snapshot.status :
             j \in { k \in DOMAIN history :
                       history[k].snapshot.status.status = "published" } }

\* transition(article, restore, expectedVersion, actor)
Restore(i, actor, republished) ==
  /\ CanCall
  /\ Commit(past[i].article,
            [op |-> "restore", edge |-> "restore", actor |-> actor],
            RestoreArticle(past[i].article, actor, republished, now))

\* rollback(article, history, targetVersion, actor)
Rollback(i, targetVersion, actor) ==
  /\ CanCall
  /\ Commit(past[i].article,
            [op |-> "rollback", target |-> targetVersion, actor |-> actor],
            RollbackArticle(past[i].article, past[i].history,
                            targetVersion, actor, now))

\* The call returns to its caller.
Return ==
  /\ last # NoCall
  /\ last' = NoCall
  /\ UNCHANGED <<article, versions, past, now, won>>

Next ==
  \/ \E data \in CreateInputs : Create(data)
  \/ \E i \in Loadable, actor \in ActorsOf({"w1", "w2", "e1"}) :
       \E patch \in Patches(past[i].article.type) : Update(i, patch, actor)
  \/ \E i \in Loadable, edge \in TransitionKinds, payload \in Payloads :
       \E actor \in ActorsFor(edge) : Transition(i, edge, actor, payload)
  \/ \E i \in Loadable, actor \in ActorsOf({"p1", "ad"}) :
       \E republished \in Republications(past[i].history, actor) :
         Restore(i, actor, republished)
  \/ \E i \in Loadable, targetVersion \in 1..MaxVersion, actor \in EditorialActors :
       Rollback(i, targetVersion, actor)
  \/ Return

Spec == Init /\ [][Next]_vars

(***************************************************************************)
(* Properties.                                                             *)
(***************************************************************************)
\* A call is made in this step (its result is in last').
CallStep == last = NoCall /\ last' # NoCall

MutatingOps == {"update", "transition", "restore", "rollback"}

Exists == article # NoArticle

\* The five lifecycle edges, as (from, to) pairs.
LifecycleEdges ==
  { <<"draft", "reviewing">>, <<"reviewing", "published">>,
    <<"reviewing", "draft">>, <<"draft", "archived">>,
    <<"published", "archived">> }

StatusChanged == Exists /\ article'.status # article.status

Kinds == [i \in DOMAIN versions |-> versions[i].snapshot.status.status]

C3_VersionCounter ==
  /\ [](Exists => article.currentVersion = 1 + (Len(past) - 1))
  /\ [][/\ (~Exists /\ article' # NoArticle) => article'.currentVersion = 1
        /\ (Exists /\ CallStep) =>
              article'.currentVersion =
                IF last'.result.ok THEN article.currentVersion + 1
                ELSE article.currentVersion
        /\ (Exists /\ ~CallStep) =>
              article'.currentVersion = article.currentVersion]_vars

\* C3 witness: three mutations of different kinds succeeded and a call failed.
C3_Witness ==
  /\ Exists /\ article.currentVersion = 4
  /\ last # NoCall /\ ~last.result.ok
  /\ \E v \in DOMAIN won : won[v] # <<>> /\ won[v][1].op = "rollback"

\* C4: the recorded versions of the article are exactly 1..currentVersion,
\* and a recorded snapshot is never modified or deleted by a later call.
C4_AppendOnly ==
  /\ [](Exists =>
          /\ Len(versions) = article.currentVersion
          /\ \A i \in DOMAIN versions :
               /\ versions[i].version = i
               /\ versions[i].articleId = article.id
               /\ versions[i].snapshot.currentVersion = i)
  /\ [][\A i \in DOMAIN versions :
          i \in DOMAIN versions' /\ versions'[i] = versions[i]]_vars

\* C4 witness: four versions are recorded, made by update, transition and
\* rollback.
C4_Witness ==
  /\ Len(versions) = 4
  /\ { won[v][1].op : v \in 1..3 } = {"update", "transition", "rollback"}

\* The source status each edge is declared on.
DeclaredSource(edge) ==
  CASE edge \in {"submitForReview", "archiveDraft"}    -> "draft"
    [] edge \in {"approveAndPublish", "rejectReview"}  -> "reviewing"
    [] edge = "archivePublished"                       -> "published"
    [] edge = "restore"                                -> "archived"

\* C5: a transition edge invoked on an article whose status is not the
\* edge's declared source returns a ConflictError, and the stored article
\* keeps its status.
C5_WrongSourceConflict ==
  [][(CallStep /\ last'.op \in {"transition", "restore"}
        /\ last'.given.status.status # DeclaredSource(last'.edge)) =>
       /\ Failed(last'.result, "ConflictError")
       /\ article' = article]_vars

\* C5 witness: approveAndPublish was invoked on a draft by a publisher and
\* returned a ConflictError.
C5_Witness ==
  /\ last.op = "transition" /\ last.edge = "approveAndPublish"
  /\ last.given.status.status = "draft"
  /\ last.actor.role = "publisher"
  /\ Failed(last.result, "ConflictError")

\* C2: of the calls made on the article as loaded at version v that pass
\* their own checks, exactly one commits (the stored version becomes v + 1);
\* every other one fails with a ConflictError and leaves version v + 1 as
\* the winner wrote it.
C2_OneWinner ==
  /\ \A v \in DOMAIN won : Len(won[v]) <= 1
  /\ (last.op \in MutatingOps /\ last.valid) =>
       LET v == last.expected
       IN  /\ Len(won[v]) = 1
           /\ IF last.result.ok
                THEN /\ article = won[v][1].article
                     /\ article.currentVersion = v + 1
                ELSE /\ Failed(last.result, "ConflictError")
                     /\ versions[v + 1].snapshot = won[v][1].article
                     /\ article = versions[Len(versions)].snapshot

\* C2 witness: two updates were made on version 1; one committed and the
\* other, by an actor allowed to edit, got a ConflictError.
C2_Witness ==
  /\ last.op = "update" /\ last.valid /\ last.expected = 1
  /\ Failed(last.result, "ConflictError")
  /\ won[1][1].op = "update"
  /\ article.currentVersion = 2

\* The roles that hold a permission (README, role -> permission mapping;
\* specification 4.4, required permission per edge).
EditAnyRoles == {"editor", "publisher", "admin"}

RolesFor(edge) ==
  CASE edge = "approveAndPublish" -> {"publisher", "admin"}
    [] edge = "restore"           -> {"admin"}
    [] OTHER                      -> EditAnyRoles

InEditableBy(given, id) ==
  /\ given.status.status = "draft"
  /\ \E i \in DOMAIN given.status.editableBy : given.status.editableBy[i] = id

\* The actor of the call lacks what the call requires.
LacksPermission(call) ==
  IF call.op = "update"
    THEN ~(InEditableBy(call.given, call.actor.id)
             \/ call.actor.role \in EditAnyRoles)
    ELSE /\ call.actor.role \notin RolesFor(call.edge)
         /\ ~(call.edge = "submitForReview"
                /\ InEditableBy(call.given, call.actor.id))

GuardedOps == {"update", "transition", "restore"}

C7_FailureAtomic ==
  [][(CallStep /\ ~last'.result.ok) =>
       article' = article /\ versions' = versions]_vars

\* C7 witness: a transition passed its checks on a stale article and was
\* rejected by the commit.
C7_Witness ==
  /\ last.op = "transition" /\ last.valid
  /\ ~last.result.ok
  /\ Len(versions) >= 2

\* C8: a rollback at version c to an existing version V yields version c + 1
\* with the metadata and content of snapshot V; versions 1..c stay as they
\* were, and a target that is not recorded yields no version.
C8_RollbackAppends ==
  last.op = "rollback" =>
    LET c == last.expected
        V == last.target
    IN  /\ last.valid => V \in 1..c
        /\ last.result.ok =>
             /\ article.currentVersion = c + 1
             /\ Len(versions) = c + 1
             /\ versions[c + 1].version = c + 1
             /\ versions[c + 1].snapshot = article
             /\ article.metadata = versions[V].snapshot.metadata
             /\ article.content = versions[V].snapshot.content
             /\ versions[V].version = V
             /\ SubSeq(versions, 1, c) = past[c].history

\* C8 witness: a rollback to an earlier version brought back a content that
\* had been edited since.
C8_Witness ==
  /\ last.op = "rollback" /\ last.result.ok
  /\ last.target < last.expected
  /\ article.content # last.given.content

\* The status kind of the latest snapshot of history that is not archived.
PriorKind(history) ==
  LET live == { i \in DOMAIN history :
                  history[i].snapshot.status.status # "archived" }
      top  == CHOOSE i \in live : \A j \in live : j <= i
  IN  history[top].snapshot.status.status

C10_UpdateGuarded ==
  last.op = "update" =>
    LET g == last.given
        p == last.patch
        allowed == InEditableBy(g, last.actor.id)
                     \/ (g.status.status = "draft"
                           /\ last.actor.role \in EditAnyRoles)
        n == Len(versions)
    IN  /\ ~allowed => Failed(last.result, "UnauthorizedError")
        /\ allowed => last.valid
        /\ last.result.ok =>
             /\ allowed
             /\ article.currentVersion = g.currentVersion + 1
             /\ n = g.currentVersion + 1
             /\ versions[n].snapshot = article
             /\ article.updatedAt > g.updatedAt
             /\ article.updatedAt = versions[n].createdAt
             /\ DOMAIN article = DOMAIN g
             /\ \A k \in (DOMAIN g) \ {"currentVersion", "updatedAt"} :
                  IF k \notin DOMAIN p THEN article[k] = g[k]
                  ELSE IF k \in {"metadata", "content"}
                    THEN /\ DOMAIN article[k] = DOMAIN g[k]
                         /\ \A f \in DOMAIN g[k] :
                              article[k][f] =
                                IF f \in DOMAIN p[k] THEN p[k][f] ELSE g[k][f]
                  ELSE article[k] = p[k]

\* C10 witness: a writer in editableBy updated part of the content of a draft.
C10_Witness ==
  /\ last.op = "update" /\ last.result.ok
  /\ last.actor.role = "writer"
  /\ "content" \in DOMAIN last.patch
  /\ article.content # last.given.content

(***************************************************************************)
(* The entity functions on their own: createDraftArticle, create and the   *)
(* read-only helpers, applied to inputs drawn from bounded sets.           *)
(***************************************************************************)
\* Shapes of metadata and content, one per content type.
ShapeOf(type) == [shape |-> type]

AuthorLists == { <<>>, <<"w1">>, <<"w1", "w2">> }

\* Well-typed create data (CreateArticleData<T> & { id }): every content
\* type, with and without the optional categories and tags.
DraftInputs ==
  { Spread([ id |-> "a1", type |-> t, slug |-> "advanced-typescript",
             title |-> "Advanced TypeScript", metadata |-> ShapeOf(t),
             content |-> ShapeOf(t), authors |-> authors ], optional) :
      t \in ArticleType, authors \in AuthorLists,
      optional \in { <<>>, [categories |-> <<"cat1">>], [tags |-> <<"tag1", "tag2">>],
                     [categories |-> <<"cat1">>, tags |-> <<"tag1">>] } }

\* The statuses an article may carry.
SampleStatuses ==
  { DraftStatus(e) : e \in AuthorLists \cup EditableBySets }
    \cup { ReviewingStatus(r, 0, "w1") : r \in Reviewers }
    \cup { PublishedStatus(0, "p1", u) : u \in Urls }
    \cup { ArchivedStatus(0, "e1", r, p) : r \in Reasons, p \in {"draft", "published"} }

SampleArticles ==
  { Spread(createDraftArticle(d, 0), [status |-> st]) :
      d \in {NewsData, TutorialData}, st \in SampleStatuses }

\* Create data that the registry or the slug rule rejects: metadata or
\* content of another content type, or no slug.
MalformedInputs ==
  LET base == { d \in DraftInputs : d.authors = <<"w1">> /\ "tags" \notin DOMAIN d }
  IN  { Spread(d, [metadata |-> ShapeOf(t)]) :
          d \in base, t \in ArticleType \ {"news"} }
        \cup { Spread(d, [content |-> ShapeOf(t)]) :
                 d \in base, t \in ArticleType \ {"review"} }
        \cup { [k \in (DOMAIN d) \ {"slug"} |-> d[k]] : d \in base }

\* The article and the create data the functions are applied to.
EntityInit ==
  /\ article \in SampleArticles
  /\ last \in { [op |-> "input", data |-> d] : d \in DraftInputs \cup MalformedInputs }
  /\ now \in 0..1
  /\ versions = <<>>
  /\ past = <<>>
  /\ won = [v \in 1..MaxVersion |-> <<>>]

HasInput == last.op = "input"

Answer(call) ==
  /\ HasInput
  /\ last' = call
  /\ UNCHANGED <<article, versions, past, now, won>>

\* createDraftArticle takes well-typed data only (CreateArticleData<T>).
CallCreateDraftArticle ==
  /\ HasInput
  /\ last.data \in DraftInputs
  /\ Answer([op |-> "createDraftArticle", data |-> last.data,
          result |-> createDraftArticle(last.data, now)])

CallCreate ==
  /\ HasInput
  /\ Answer([op |-> "create", data |-> last.data,
             result |-> CreateArticle(last.data, now)])

CallIsEditable ==
  Answer([op |-> "isEditable", result |-> isEditable(article)])

CallCanAuthorEdit(authorId) ==
  Answer([op |-> "canAuthorEdit", authorId |-> authorId,
          result |-> canAuthorEdit(article, authorId)])

CallGetPublishedUrl ==
  Answer([op |-> "getPublishedUrl", result |-> getPublishedUrl(article)])

CallGetPublishedDate ==
  Answer([op |-> "getPublishedDate", result |-> getPublishedDate(article)])

CallGetPublishedDateOfStatus ==
  Answer([op |-> "getPublishedDateOfStatus",
          result |-> getPublishedDateOfStatus(article.status)])

\* The helpers of the entity and the helpers of the status, on one article.
CallHelpers ==
  Answer([op |-> "helpers",
          ofArticle |-> [ isEditable       |-> isEditable(article),
                          isPublished      |-> isPublished(article),
                          isArchived       |-> isArchived(article),
                          getPublishedDate |-> getPublishedDate(article) ],
          ofStatus  |-> [ isDraft          |-> isDraft(article.status),
                          isUnderReview    |-> isUnderReview(article.status),
                          isPublished      |-> isPublishedStatus(article.status),
                          isArchived       |-> isArchivedStatus(article.status),
                          getPublishedDate |-> getPublishedDateOfStatus(article.status) ]])

EntityNext ==
  \/ CallCreateDraftArticle
  \/ CallCreate
  \/ CallIsEditable
  \/ \E authorId \in { a.id : a \in Actors } : CallCanAuthorEdit(authorId)
  \/ CallGetPublishedUrl
  \/ CallGetPublishedDate
  \/ CallGetPublishedDateOfStatus
  \/ CallHelpers

EntitySpec == EntityInit /\ [][EntityNext]_vars

\* C11: createDraftArticle returns, for every input, a draft editable by the
\* given authors, at version 1, created and updated at the instant of the
\* call, with categories and tags empty unless given, and with id, type,
\* slug, title, metadata and content as given.
C11_CreateDraftArticle ==
  last.op = "createDraftArticle" =>
    LET d == last.data
        a == last.result
    IN  /\ a.status = [status |-> "draft", editableBy |-> d.authors]
        /\ a.currentVersion = 1
        /\ a.createdAt = now /\ a.updatedAt = a.createdAt
        /\ a.categories = IF "categories" \in DOMAIN d THEN d.categories ELSE <<>>
        /\ a.tags = IF "tags" \in DOMAIN d THEN d.tags ELSE <<>>
        /\ \A k \in {"id", "type", "slug", "title", "metadata", "content"} :
             a[k] = d[k]

\* C11 witness: a review with two authors and no categories was created.
C11_Witness ==
  /\ last.op = "createDraftArticle"
  /\ last.data.type = "review"
  /\ last.data.authors = <<"w1", "w2">>
  /\ "categories" \notin DOMAIN last.data
  /\ last.result.categories = <<>>
  /\ last.result.status.editableBy = <<"w1", "w2">>

\* The create data has a slug and the metadata and content of its type.
WellFormed(data) ==
  /\ "slug" \in DOMAIN data
  /\ data.metadata.shape = data.type
  /\ data.content.shape = data.type

C13_Immutable ==
  Exists =>
    LET first == past[1].article
        Same(a) == a.id = first.id /\ a.type = first.type
                     /\ a.createdAt = first.createdAt
    IN  /\ Same(article)
        /\ \A i \in DOMAIN versions : Same(versions[i].snapshot)

\* C13 witness: an update, a transition and a rollback were committed and a
\* later call failed.
C13_Witness ==
  /\ Exists
  /\ {"update", "transition", "rollback"} \subseteq
       { won[v][1].op : v \in { w \in DOMAIN won : won[w] # <<>> } }
  /\ last.op \in MutatingOps /\ ~last.result.ok

\* C14 as stated: an editableBy set exists only on a draft, and the draft
\* that create produces has a non-empty one.
C14_DraftHasEditor ==
  /\ "editableBy" \in DOMAIN article.status <=> isDraft(article.status)
  /\ last.op = "createDraftArticle" =>
       /\ isDraft(last.result.status)
       /\ last.result.status.editableBy # <<>>

\* C14, amended: an editableBy set exists only on a draft; the draft that
\* create produces has editableBy equal to the given authors, which is empty
\* exactly when no author is given.
C14_EditableByOnlyOnDraft ==
  /\ "editableBy" \in DOMAIN article.status <=> isDraft(article.status)
  /\ last.op = "createDraftArticle" =>
       /\ isDraft(last.result.status)
       /\ last.result.status.editableBy = last.data.authors
       /\ last.result.status.editableBy = <<>> <=> last.data.authors = <<>>

\* C14 witness: a tutorial created with authors: [] is a draft nobody is
\* listed to edit, next to an article under review without editableBy.
C14_Witness ==
  /\ last.op = "createDraftArticle"
  /\ last.data.type = "tutorial" /\ last.data.authors = <<>>
  /\ isDraft(last.result.status)
  /\ last.result.status.editableBy = <<>>
  /\ isUnderReview(article.status)

\* C15: isEditable is true exactly on a draft; canAuthorEdit is true exactly
\* on a draft whose editableBy holds the author, so it implies isEditable and
\* is false on reviewing, published and archived articles.
C15_EditHelpers ==
  /\ last.op = "isEditable" =>
       (last.result <=> article.status.status = "draft")
  /\ last.op = "canAuthorEdit" =>
       /\ last.result <=>
            /\ article.status.status = "draft"
            /\ \E i \in DOMAIN article.status.editableBy :
                 article.status.editableBy[i] = last.authorId
       /\ last.result => isEditable(article)
       /\ article.status.status \in {"reviewing", "published", "archived"}
            => ~last.result

\* C15 witness: canAuthorEdit is false for an author of the article who is
\* not in the editableBy of the draft.
C15_Witness ==
  /\ last.op = "canAuthorEdit"
  /\ ~last.result
  /\ article.status.status = "draft"
  /\ article.status.editableBy = <<"w2">>
  /\ last.authorId = "w1"
  /\ article.authors = <<"w1">>

\* C16: getPublishedUrl and getPublishedDate return the url / publishedAt of
\* a published status and null for a draft, reviewing or archived one; a
\* non-null result comes from a published article only.
C16_PublishedGetters ==
  LET published == article.status.status = "published"
  IN  /\ last.op = "getPublishedUrl" =>
           /\ last.result = IF published THEN article.status.url ELSE Null
           /\ last.result # Null => published
      /\ last.op \in {"getPublishedDate", "getPublishedDateOfStatus"} =>
           /\ last.result =
                IF published THEN article.status.publishedAt ELSE NullDate
           /\ last.result # NullDate => published

\* C16 witness: getPublishedDate returned null for an archived article that
\* had been published.
C16_Witness ==
  /\ last.op = "getPublishedDate"
  /\ last.result = NullDate
  /\ article.status.status = "archived"
  /\ article.status.previousStatus = "published"

(***************************************************************************)
(* Value objects: Slug and CategoryPath.  A string is a sequence of        *)
(* characters; a character is a one-symbol token ("a", "B", " ", ...), the *)
(* precomposed accented letters and the combining mark are named tokens.   *)
(***************************************************************************)
\* Inputs are all strings over a small alphabet of at most MaxInputLen characters
\* (and the longer ones listed below).
MaxInputLen == 4
\* createCategoryPathFromSegments is given at most MaxSegments segments.
MaxSegments == 6

\* Limits written in the validators.
MinSlugLength == 3
MaxSlugLength == 200
MaxDepth == 5
MaxSegmentLength == 50
MaxPathLength == 200

UpperCase ==
  <<"A", "B", "C", "D", "E", "F", "G", "H", "I", "J", "K", "L", "M",
    "N", "O", "P", "Q", "R", "S", "T", "U", "V", "W", "X", "Y", "Z">>

LowerCase ==
  <<"a", "b", "c", "d", "e", "f", "g", "h", "i", "j", "k", "l", "m",
    "n", "o", "p", "q", "r", "s", "t", "u", "v", "w", "x", "y", "z">>

Letters == { LowerCase[i] : i \in DOMAIN LowerCase }

Digits == {"0", "1", "2", "3", "4", "5", "6", "7", "8", "9"}

\* \s
Whitespace == {" ", "TAB"}

\* [\u0300-\u036f]
CombiningMarks == {"COMBINING_ACUTE"}

\* [a-z0-9-]
SlugChars == Letters \cup Digits \cup {"-"}

\* String.prototype.toLowerCase, character by character.
toLowerCase(str) ==
  LET LowerOf(c) ==
        IF \E i \in DOMAIN UpperCase : UpperCase[i] = c
          THEN LowerCase[CHOOSE i \in DOMAIN UpperCase : UpperCase[i] = c]
        ELSE IF c = "E_ACUTE" THEN "e_acute"
        ELSE c
  IN  [i \in DOMAIN str |-> LowerOf(str[i])]

\* replace(/^[set]+/, '')
StripLeading(str, set) ==
  LET kept == { i \in DOMAIN str : str[i] \notin set }
  IN  IF kept = {} THEN <<>>
      ELSE SubSeq(str, CHOOSE i \in kept : \A j \in kept : i <= j, Len(str))

\* replace(/[set]+$/, '')
StripTrailing(str, set) ==
  LET kept == { i \in DOMAIN str : str[i] \notin set }
  IN  IF kept = {} THEN <<>>
      ELSE SubSeq(str, 1, CHOOSE i \in kept : \A j \in kept : j <= i)

\* String.prototype.trim
trim(str) == StripTrailing(StripLeading(str, Whitespace), Whitespace)

RECURSIVE normalizeNFD(_)
\* String.prototype.normalize('NFD'): the canonical decomposition of every
\* character.
normalizeNFD(str) ==
  IF str = <<>> THEN <<>>
  ELSE IF Len(str) = 1
    THEN IF str[1] = "e_acute" THEN <<"e", "COMBINING_ACUTE">>
         ELSE IF str[1] = "E_ACUTE" THEN <<"E", "COMBINING_ACUTE">>
         ELSE str
  ELSE LET half == Len(str) \div 2
       IN  normalizeNFD(SubSeq(str, 1, half))
             \o normalizeNFD(SubSeq(str, half + 1, Len(str)))

\* replace(/[set]/g, '')
Remove(str, set) == SelectSeq(str, LAMBDA c : c \notin set)

\* replace(/[^set]/g, '')
Keep(str, set) == SelectSeq(str, LAMBDA c : c \in set)

\* replace(/[set]+/g, by): every maximal run of characters of set becomes by.
ReplaceRuns(str, set, by) ==
  LET marked == [i \in DOMAIN str |->
                   IF str[i] \notin set THEN str[i]
                   ELSE IF i > 1 /\ str[i - 1] \in set THEN "SKIP"
                   ELSE by]
  IN  SelectSeq(marked, LAMBDA c : c # "SKIP")

\* normalizeSlug that leaves hyphens at the two ends.
normalizeSlugKeepsEdgeHyphens(input) ==
  LET lowered    == toLowerCase(input)
      trimmed    == trim(lowered)
      decomposed == normalizeNFD(trimmed)
      unmarked   == Remove(decomposed, CombiningMarks)
      hyphenated == ReplaceRuns(unmarked, Whitespace, "-")
      cleaned    == Keep(hyphenated, SlugChars)
  IN  ReplaceRuns(cleaned, {"-"}, "-")

\* normalizeSlug that drops whitespace instead of turning it into hyphens.
normalizeSlugJoinsWords(input) ==
  LET lowered    == toLowerCase(input)
      trimmed    == trim(lowered)
      decomposed == normalizeNFD(trimmed)
      unmarked   == Remove(decomposed, CombiningMarks)
      cleaned    == Keep(unmarked, SlugChars)
      collapsed  == ReplaceRuns(cleaned, {"-"}, "-")
      headless   == StripLeading(collapsed, {"-"})
  IN  StripTrailing(headless, {"-"})

\* normalizeSlug that strips the hyphens at the two ends before it removes
\* the special characters.
normalizeSlugStripsFirst(input) ==
  LET lowered    == toLowerCase(input)
      trimmed    == trim(lowered)
      decomposed == normalizeNFD(trimmed)
      unmarked   == Remove(decomposed, CombiningMarks)
      hyphenated == ReplaceRuns(unmarked, Whitespace, "-")
      headless   == StripLeading(hyphenated, {"-"})
      tailless   == StripTrailing(headless, {"-"})
      cleaned    == Keep(tailless, SlugChars)
  IN  ReplaceRuns(cleaned, {"-"}, "-")

normalizeSlug(input) ==
  LET lowered    == toLowerCase(input)
      trimmed    == trim(lowered)
      decomposed == normalizeNFD(trimmed)
      unmarked   == Remove(decomposed, CombiningMarks)
      hyphenated == ReplaceRuns(unmarked, Whitespace, "-")
      cleaned    == Keep(hyphenated, SlugChars)
      collapsed  == ReplaceRuns(cleaned, {"-"}, "-")
      headless   == StripLeading(collapsed, {"-"})
  IN  StripTrailing(headless, {"-"})

\* validateSlug without the maximum length.
validateSlugNoMaximum(normalized) ==
  IF Len(normalized) < MinSlugLength
    THEN Err(validationError("Slug too short"))
    ELSE Ok(Absent)

validateSlug(normalized) ==
  IF Len(normalized) < MinSlugLength
    THEN Err(validationError("Slug too short"))
  ELSE IF Len(normalized) > MaxSlugLength
    THEN Err(validationError("Slug too long"))
  ELSE Ok(Absent)

createSlug(input) ==
  IF input = <<>> \/ Len(trim(input)) = 0
    THEN Err(validationError("Slug cannot be empty"))
    ELSE LET normalized == normalizeSlug(input)
             validation == validateSlug(normalized)
         IN  IF ~validation.ok THEN validation ELSE Ok(normalized)

\* isSlug that validates the value as given.
isSlugWithoutNormalizing(value) == validateSlug(value).ok

isSlug(value) == validateSlug(normalizeSlug(value)).ok

normalizeSegment(segment) ==
  LET lowered    == toLowerCase(segment)
      trimmed    == trim(lowered)
      decomposed == normalizeNFD(trimmed)
      unmarked   == Remove(decomposed, CombiningMarks)
      hyphenated == ReplaceRuns(unmarked, Whitespace, "-")
      cleaned    == Keep(hyphenated, SlugChars)
      collapsed  == ReplaceRuns(cleaned, {"-"}, "-")
      headless   == StripLeading(collapsed, {"-"})
  IN  StripTrailing(headless, {"-"})

\* /^[a-z0-9]+(-[a-z0-9]+)*$/
MatchesSegmentPattern(segment) ==
  /\ segment # <<>>
  /\ \A i \in DOMAIN segment : segment[i] \in SlugChars
  /\ segment[1] # "-" /\ segment[Len(segment)] # "-"
  /\ \A i \in 1..(Len(segment) - 1) : ~(segment[i] = "-" /\ segment[i + 1] = "-")

\* isValidSegment without the limit on the length.
isValidSegmentAnyLength(segment) ==
  IF Len(segment) < 1 THEN FALSE
  ELSE MatchesSegmentPattern(segment)

isValidSegment(segment) ==
  IF Len(segment) < 1 THEN FALSE
  ELSE IF Len(segment) > MaxSegmentLength THEN FALSE
  ELSE MatchesSegmentPattern(segment)

RECURSIVE join(_, _)
\* Array.prototype.join
join(parts, separator) ==
  IF parts = <<>> THEN <<>>
  ELSE IF Len(parts) = 1 THEN parts[1]
  ELSE parts[1] \o <<separator>> \o join(Tail(parts), separator)

\* String.prototype.split on a one-character separator.
split(str, separator) ==
  LET at == { i \in DOMAIN str : str[i] = separator }
      n  == Cardinality(at)
      pos(k) == IF k = 0 THEN 0
                ELSE IF k = n + 1 THEN Len(str) + 1
                ELSE CHOOSE i \in at : Cardinality({ j \in at : j < i }) = k - 1
  IN  [k \in 1..(n + 1) |-> SubSeq(str, pos(k - 1) + 1, pos(k) - 1)]

\* buildCategoryPath without the limit on the depth.
buildCategoryPathAnyDepth(segments) ==
  LET bad == { i \in DOMAIN segments :
                 \/ segments[i] = <<>>
                 \/ ~isValidSegment(normalizeSegment(segments[i])) }
      path == <<"/">> \o join([i \in DOMAIN segments |->
                                 normalizeSegment(segments[i])], "/")
  IN  IF Len(segments) = 0
        THEN Err(validationError("CategoryPath cannot be empty"))
      ELSE IF bad # {}
        THEN IF segments[CHOOSE i \in bad : \A j \in bad : i <= j] = <<>>
               THEN Err(validationError("Empty segment"))
               ELSE Err(validationError("Invalid segment"))
      ELSE IF Len(path) > MaxPathLength
        THEN Err(validationError("CategoryPath too long"))
      ELSE Ok(path)

\* The loop returns at the first segment that is empty or invalid.
buildCategoryPath(segments) ==
  LET bad == { i \in DOMAIN segments :
                 \/ segments[i] = <<>>
                 \/ ~isValidSegment(normalizeSegment(segments[i])) }
      path == <<"/">> \o join([i \in DOMAIN segments |->
                                 normalizeSegment(segments[i])], "/")
  IN  IF Len(segments) = 0
        THEN Err(validationError("CategoryPath cannot be empty"))
      ELSE IF Len(segments) > MaxDepth
        THEN Err(validationError("CategoryPath too deep"))
      ELSE IF bad # {}
        THEN IF segments[CHOOSE i \in bad : \A j \in bad : i <= j] = <<>>
               THEN Err(validationError("Empty segment"))
               ELSE Err(validationError("Invalid segment"))
      ELSE IF Len(path) > MaxPathLength
        THEN Err(validationError("CategoryPath too long"))
      ELSE Ok(path)

createCategoryPathFromString(input) ==
  LET cleaned == StripTrailing(StripLeading(input, {"/"}), {"/"})
  IN  IF cleaned = <<>> THEN Ok(<<"/">>)
      ELSE buildCategoryPath(SelectSeq(split(cleaned, "/"), LAMBDA part : Len(part) > 0))

\* createCategoryPathFromSegments that keeps the empty entries of the list.
createCategoryPathFromSegmentsUnfiltered(segments) ==
  buildCategoryPath(segments)

createCategoryPathFromSegments(segments) ==
  buildCategoryPath(SelectSeq(segments, LAMBDA part : Len(part) > 0))

isCategoryPath(value) == createCategoryPathFromString(value).ok

getSegments(path) ==
  IF path = <<"/">> THEN <<>>
  ELSE split(SubSeq(path, 2, Len(path)), "/")

getLevel(path) ==
  IF path = <<"/">> THEN 0 ELSE Len(getSegments(path))

\* null where a CategoryPath is expected; no CategoryPath is empty.
NullPath == <<>>

\* getParentPath that gives no parent to a path of one segment.
getParentPathOrphansTopLevel(path) ==
  IF path = <<"/">> THEN NullPath
  ELSE LET segments == getSegments(path)
       IN  IF Len(segments) = 1 THEN NullPath
           ELSE <<"/">> \o join(SubSeq(segments, 1, Len(segments) - 1), "/")

getParentPath(path) ==
  IF path = <<"/">> THEN NullPath
  ELSE LET segments == getSegments(path)
       IN  IF Len(segments) = 1 THEN <<"/">>
           ELSE <<"/">> \o join(SubSeq(segments, 1, Len(segments) - 1), "/")

\* String.prototype.startsWith
startsWith(str, prefix) ==
  /\ Len(prefix) <= Len(str)
  /\ SubSeq(str, 1, Len(prefix)) = prefix

\* isAncestorOf comparing the two strings without the separator.
isAncestorOfByStringPrefix(ancestor, descendant) ==
  IF ancestor = descendant THEN FALSE
  ELSE IF ancestor = <<"/">> THEN TRUE
  ELSE startsWith(descendant, ancestor)

isAncestorOf(ancestor, descendant) ==
  IF ancestor = descendant THEN FALSE
  ELSE IF ancestor = <<"/">> THEN TRUE
  ELSE startsWith(descendant, ancestor \o <<"/">>)

(***************************************************************************)
(* The value-object constructors applied to inputs drawn from bounded sets.*)
(***************************************************************************)
\* String.prototype.repeat of one character.
Repeat(c, n) == [i \in 1..n |-> c]

AdvancedTypeScript ==
  <<"A", "d", "v", "a", "n", "c", "e", "d", " ",
    "T", "y", "p", "e", "S", "c", "r", "i", "p", "t">>

\* Inputs around the limits of the validators, and the documented example.
LongStrings ==
  { Repeat("a", n) : n \in (MaxSlugLength - 1)..(MaxSlugLength + 1) }
    \cup { <<" ", "!">> \o Repeat("a", MaxSlugLength) \o <<"-", "TAB">>,
           Repeat("a", MaxSlugLength) \o <<" ", "B">>,
           AdvancedTypeScript,
           <<"TAB">> \o AdvancedTypeScript \o <<" ">>,
           <<"a", "TAB", " ", "b", "e_acute">> }

FullSegment == Repeat("a", MaxSegmentLength)

LongPaths ==
  { join(<<<<>>, FullSegment, FullSegment, FullSegment, Repeat("a", n)>>, "/") :
      n \in (MaxSegmentLength - 5)..(MaxSegmentLength - 2) }
    \cup { join([i \in 1..(n + 1) |-> IF i = 1 THEN <<>> ELSE <<"a", "7">>], "/") :
             n \in (MaxDepth - 1)..(MaxDepth + 1) }
    \cup { <<"/">> \o Repeat("a", n) \o <<"/", "/">> :
             n \in (MaxSegmentLength - 1)..(MaxSegmentLength + 1) }

\* The strings given to the constructors and to the guards: every string of
\* at most MaxInputLen characters over an alphabet with a letter of each
\* case, a digit, a hyphen, a space, a special character, an accented letter
\* and the path separator; the strings at the limits; two examples that
\* normalize to a valid value and their normal forms.
StringInputs ==
  UNION { [1..k -> {"a", "B", "7", "-", " ", "!", "E_ACUTE", "/"}] :
            k \in 0..MaxInputLen }
    \cup LongStrings \cup LongPaths
    \cup { <<"H", "e", "l", "l", "o", " ", "W", "o", "r", "l", "d", "!">>,
           <<"h", "e", "l", "l", "o", "-", "w", "o", "r", "l", "d">>,
           <<"T", "E", "C", "H", "/", "/", "P", "r", "o", "g">>,
           <<"/", "t", "e", "c", "h", "/", "p", "r", "o", "g">> }

SegmentInputs ==
  UNION { [1..k -> { <<>>, <<"t", "e", "c", "h">>, <<"B", " ", "a">>, FullSegment }] :
            k \in 0..MaxSegments }
    \cup { <<Repeat("a", MaxSegmentLength + 1)>>, <<<<"!">>>>, <<<<" ">>>>,
           <<<<"a", "/", "b">>, <<"-", "a", "-">>>>,
           <<FullSegment, FullSegment, FullSegment, Repeat("a", MaxSegmentLength - 4)>>,
           <<FullSegment, FullSegment, FullSegment, Repeat("a", MaxSegmentLength - 3)>> }

ValueInit ==
  /\ last \in { [op |-> "input", input |-> str] : str \in StringInputs }
                \cup { [op |-> "input", segments |-> list] : list \in SegmentInputs }
  /\ article = NoArticle
  /\ versions = <<>>
  /\ past = <<>>
  /\ now = 0
  /\ won = [v \in 1..MaxVersion |-> <<>>]

CallCreateSlug ==
  /\ "input" \in DOMAIN last
  /\ Answer([op |-> "createSlug", input |-> last.input,
             result |-> createSlug(last.input)])

CallCreateCategoryPathFromString ==
  /\ "input" \in DOMAIN last
  /\ Answer([op |-> "createCategoryPathFromString", input |-> last.input,
             result |-> createCategoryPathFromString(last.input)])

CallCreateCategoryPathFromSegments ==
  /\ "segments" \in DOMAIN last
  /\ Answer([op |-> "createCategoryPathFromSegments", segments |-> last.segments,
             result |-> createCategoryPathFromSegments(last.segments)])

\* createSlug applied to the value it has just returned.
CallCreateSlugAgain ==
  /\ last.op = "createSlug"
  /\ last.result.ok
  /\ last' = [op |-> "createSlugAgain", input |-> last.input,
              first |-> last.result,
              result |-> createSlug(last.result.value)]
  /\ UNCHANGED <<article, versions, past, now, won>>

CallIsSlug ==
  /\ "input" \in DOMAIN last
  /\ Answer([op |-> "isSlug", input |-> last.input,
             result |-> isSlug(last.input)])

CallIsCategoryPath ==
  /\ "input" \in DOMAIN last
  /\ Answer([op |-> "isCategoryPath", input |-> last.input,
             result |-> isCategoryPath(last.input)])

ValueNext ==
  \/ CallCreateSlug
  \/ CallCreateCategoryPathFromString
  \/ CallCreateCategoryPathFromSegments
  \/ CallCreateSlugAgain
  \/ CallIsSlug
  \/ CallIsCategoryPath

ValueSpec == ValueInit /\ [][ValueNext]_vars

\* A lowercase string of ASCII letters, digits and hyphens with no hyphen at
\* either end and no two hyphens in a row.
SlugShaped(v) ==
  /\ \A i \in DOMAIN v : v[i] \in Letters \cup Digits \cup {"-"}
  /\ v # <<>> => v[1] # "-" /\ v[Len(v)] # "-"
  /\ \A i \in DOMAIN v : i < Len(v) => ~(v[i] = "-" /\ v[i + 1] = "-")

\* C17: an Ok value of createSlug is lowercase, made of ASCII letters, digits
\* and hyphens only, has no leading, trailing or consecutive hyphens, and is
\* 3 to 200 characters long.
C17_SlugInvariant ==
  (last.op = "createSlug" /\ last.result.ok) =>
    /\ SlugShaped(last.result.value)
    /\ Len(last.result.value) >= MinSlugLength
    /\ Len(last.result.value) <= MaxSlugLength

\* C17 witness: "-É B" (leading hyphen, accented capital, space, capital)
\* became the slug "e-b".
C17_Witness ==
  /\ last.op = "createSlug"
  /\ last.input = <<"-", "E_ACUTE", " ", "B">>
  /\ last.result = Ok(<<"e", "-", "b">>)

\* C18: createSlug returns a ValidationError exactly when the input is empty
\* or whitespace only (cannot be empty), when the normalized text has fewer
\* than 3 characters (too short) or more than 200 (too long), and Ok in
\* every other case.
C18_SlugErrors ==
  last.op = "createSlug" =>
    LET blank == \A i \in DOMAIN last.input : last.input[i] \in Whitespace
        size  == Len(normalizeSlug(last.input))
    IN  IF blank
          THEN last.result = Err(validationError("Slug cannot be empty"))
        ELSE IF size < MinSlugLength
          THEN last.result = Err(validationError("Slug too short"))
        ELSE IF size > MaxSlugLength
          THEN last.result = Err(validationError("Slug too long"))
        ELSE last.result.ok

\* C18 witness: an input made of stripped characters only is too short.
C18_Witness ==
  /\ last.op = "createSlug"
  /\ last.input = <<"!", "!", "!", "!">>
  /\ last.result = Err(validationError("Slug too short"))

\* The input is made of words of ASCII letters and digits, separated and
\* possibly surrounded by whitespace.
IsWords(input) ==
  /\ \A i \in DOMAIN input :
       \/ input[i] \in Letters \cup Digits \cup Whitespace
       \/ \E j \in DOMAIN UpperCase : UpperCase[j] = input[i]
  /\ \E i \in DOMAIN input : input[i] \notin Whitespace

\* The words of the input, lowercased and joined by single hyphens.
Hyphenated(input) ==
  LET spaced == [i \in DOMAIN input |->
                   IF input[i] \in Whitespace THEN " " ELSE input[i]]
      words  == SelectSeq(split(spaced, " "), LAMBDA w : w # <<>>)
  IN  join([i \in DOMAIN words |-> toLowerCase(words[i])], "-")

\* Characters that are neither letters, digits, hyphens nor whitespace.
Specials == {"!", "/"}

\* C19 as stated: for an input made of words the result is Ok of the words
\* lowercased and joined by single hyphens.
C19_WordsAlwaysOk ==
  (last.op = "createSlug" /\ IsWords(last.input)) =>
    last.result = Ok(Hyphenated(last.input))

\* C19, amended: for an input made of words the result is Ok of the words
\* lowercased and joined by single hyphens when that text is 3 to 200
\* characters long, and a ValidationError otherwise; special characters are
\* dropped without joining or splitting the words.
C19_WordsNormalized ==
  last.op = "createSlug" =>
    /\ IsWords(last.input) =>
         IF Len(Hyphenated(last.input)) \in MinSlugLength..MaxSlugLength
           THEN last.result = Ok(Hyphenated(last.input))
           ELSE Failed(last.result, "ValidationError")
    /\ (IsWords(Remove(last.input, Specials)) /\ last.result.ok) =>
         last.result.value = Hyphenated(Remove(last.input, Specials))

\* C19 witness: "\tAdvanced TypeScript " gives "advanced-typescript".
C19_Witness ==
  /\ last.op = "createSlug"
  /\ last.input = <<"TAB">> \o AdvancedTypeScript \o <<" ">>
  /\ last.result =
       Ok(<<"a", "d", "v", "a", "n", "c", "e", "d", "-",
            "t", "y", "p", "e", "s", "c", "r", "i", "p", "t">>)

\* A category path: the root "/", or 1 to 5 segments each preceded by one
\* "/", every segment 1 to 50 lowercase letters or digits with single inner
\* hyphens, at most 200 characters in all.
PathShaped(p) ==
  LET slashes == { i \in DOMAIN p : p[i] = "/" }
      end(i)  == IF \E j \in slashes : j > i
                   THEN CHOOSE j \in slashes :
                          j > i /\ \A k \in slashes : k > i => j <= k
                   ELSE Len(p) + 1
  IN  /\ p # <<>> /\ p[1] = "/"
      /\ Len(p) <= MaxPathLength
      /\ p # <<"/">> =>
           /\ p[Len(p)] # "/"
           /\ \A i \in slashes : p[i + 1] # "/"
           /\ Cardinality(slashes) \in 1..MaxDepth
           /\ \A i \in DOMAIN p : p[i] \in Letters \cup Digits \cup {"-", "/"}
           /\ \A i \in DOMAIN p :
                p[i] = "-" => /\ i < Len(p)
                              /\ p[i - 1] \notin {"-", "/"}
                              /\ p[i + 1] \notin {"-", "/"}
           /\ \A i \in slashes :
                end(i) - i - 1 \in 1..MaxSegmentLength

\* C20: an Ok value of createCategoryPathFromString or of
\* createCategoryPathFromSegments starts with "/", is the root or 1 to 5
\* segments joined by single "/" with no trailing "/", every segment being
\* 1 to 50 lowercase letters or digits with single inner hyphens, and is at
\* most 200 characters long.
C20_CategoryPathInvariant ==
  ( /\ last.op \in {"createCategoryPathFromString",
                     "createCategoryPathFromSegments"}
    /\ last.result.ok ) =>
    PathShaped(last.result.value)

\* C20 witness: the segments "", "tech", "B a" give the path "/tech/b-a".
C20_Witness ==
  /\ last.op = "createCategoryPathFromSegments"
  /\ last.segments = << <<>>, <<"t", "e", "c", "h">>, <<"B", " ", "a">> >>
  /\ last.result = Ok(<<"/", "t", "e", "c", "h", "/", "b", "-", "a">>)

(***************************************************************************)
(* Category paths: limits of the two constructors.                         *)
(***************************************************************************)
\* What a constructor answers for the segments it was given: the maximal
\* runs of characters other than "/" of the string, or the non-empty entries
\* of the list; onNone is the answer for no segment at all.
WithinLimits(call, onNone) ==
  LET str    == call.input
      starts == { i \in DOMAIN str :
                    str[i] # "/" /\ (i = 1 \/ str[i - 1] = "/") }
      endOf(i) == CHOOSE j \in i..Len(str) :
                    /\ \A k \in i..j : str[k] # "/"
                    /\ j = Len(str) \/ str[j + 1] = "/"
      nth(k) == CHOOSE i \in starts : Cardinality({ j \in starts : j < i }) = k - 1
      segs  == IF call.op = "createCategoryPathFromString"
                 THEN [k \in 1..Cardinality(starts) |->
                         SubSeq(str, nth(k), endOf(nth(k)))]
                 ELSE SelectSeq(call.segments, LAMBDA part : part # <<>>)
      norm  == [i \in DOMAIN segs |-> normalizeSegment(segs[i])]
      valid == \A i \in DOMAIN norm : Len(norm[i]) \in 1..MaxSegmentLength
      total == 1 + Len(join(norm, "/"))
  IN  IF Len(segs) = 0 THEN call.result = onNone
      ELSE IF Len(segs) > MaxDepth
        THEN call.result = Err(validationError("CategoryPath too deep"))
      ELSE IF ~valid
        THEN call.result = Err(validationError("Invalid segment"))
      ELSE IF total > MaxPathLength
        THEN call.result = Err(validationError("CategoryPath too long"))
      ELSE call.result.ok /\ Len(call.result.value) = total

\* C21 as stated: both constructors accept 0 to 5 valid segments and reject
\* more than 5 segments, a segment empty after normalization or longer than
\* 50 characters, and a path longer than 200 characters; zero segments give
\* the root path from both constructors.
C21_ZeroSegmentsGiveRoot ==
  last.op \in {"createCategoryPathFromString", "createCategoryPathFromSegments"}
    => WithinLimits(last, Ok(<<"/">>))

\* C21 amended: both constructors accept 1 to 5 valid segments and reject
\* more than 5 segments (too deep), a segment empty after normalization or
\* longer than 50 characters (invalid segment) and a path longer than 200
\* characters (too long); zero segments give the root path from the string
\* constructor and a ValidationError from the segment-array constructor.
C21_ConstructorLimits ==
  /\ last.op = "createCategoryPathFromString"
       => WithinLimits(last, Ok(<<"/">>))
  /\ last.op = "createCategoryPathFromSegments"
       => WithinLimits(last, Err(validationError("CategoryPath cannot be empty")))

\* C21 witness: the segment-array constructor was given only empty entries
\* and answered with a ValidationError.
C21_Witness ==
  /\ last.op = "createCategoryPathFromSegments"
  /\ last.segments = << <<>>, <<>> >>
  /\ Failed(last.result, "ValidationError")

(***************************************************************************)
(* The functions on category paths applied to valid paths and to lists of  *)
(* segments drawn from bounded sets.                                       *)
(***************************************************************************)
\* The deepest path of the pairs given to isAncestorOf.
MaxPairDepth == 3

\* The category paths the constructors build from the segments of a pool,
\* up to a depth, and the root.
ValidPaths(pool, depth) ==
  LET results == { createCategoryPathFromSegments(list) :
                     list \in UNION { [1..k -> pool] : k \in 1..depth } }
  IN  { result.value : result \in { r \in results : r.ok } }
        \cup { createCategoryPathFromString(<<>>).value }

PathInit ==
  /\ last \in { [op |-> "input", ancestor |-> a, descendant |-> d] :
                  a, d \in ValidPaths({ <<"a">>, <<"a", "b">>, <<"b", "-", "7">> },
                                      MaxPairDepth) }
                \cup { [op |-> "input", path |-> path] :
                         path \in ValidPaths({ <<"a">>, <<"b", "7">> }, MaxDepth)
                                    \cup ValidPaths({ FullSegment }, MaxPairDepth) }
                \cup { [op |-> "input", segments |-> list] :
                         list \in UNION { [1..k -> { <<>>, <<"t", "e", "c", "h">>,
                                                     <<"B", " ", "a">>,
                                                     <<"a", "/", "b">> }] :
                                            k \in 0..MaxSegments } }
  /\ article = NoArticle
  /\ versions = <<>>
  /\ past = <<>>
  /\ now = 0
  /\ won = [v \in 1..MaxVersion |-> <<>>]

\* getParentPath applied to a path, and then to every parent it returns.
CallGetParentPath ==
  \/ /\ "path" \in DOMAIN last
     /\ Answer([op |-> "getParentPath", start |-> last.path, path |-> last.path,
                steps |-> 1, result |-> getParentPath(last.path)])
  \/ /\ last.op = "getParentPath"
     /\ last.result # NullPath
     /\ last.steps <= MaxDepth + 1
     /\ last' = [op |-> "getParentPath", start |-> last.start, path |-> last.result,
                 steps |-> last.steps + 1, result |-> getParentPath(last.result)]
     /\ UNCHANGED <<article, versions, past, now, won>>

\* A valid path is given to both constructors, as a string and as the list
\* of its segments.
CallRoundTrip ==
  /\ "path" \in DOMAIN last
  /\ Answer([op |-> "roundTrip", path |-> last.path,
             fromString |-> createCategoryPathFromString(last.path),
             segments |-> getSegments(last.path),
             fromSegments |-> createCategoryPathFromSegments(getSegments(last.path))])

\* A list of segments is given to the segment-array constructor, and joined
\* by "/" after a leading "/" to the string constructor.
CallBothConstructors ==
  /\ "segments" \in DOMAIN last
  /\ LET joined == <<"/">> \o join(last.segments, "/")
     IN  Answer([op |-> "bothConstructors", segments |-> last.segments,
                 fromSegments |-> createCategoryPathFromSegments(last.segments),
                 joined |-> joined,
                 fromString |-> createCategoryPathFromString(joined)])

CallIsAncestorOf ==
  /\ "ancestor" \in DOMAIN last
  /\ Answer([op |-> "isAncestorOf", ancestor |-> last.ancestor,
             descendant |-> last.descendant,
             result |-> isAncestorOf(last.ancestor, last.descendant)])

PathNext ==
  \/ CallIsAncestorOf
  \/ CallGetParentPath
  \/ CallRoundTrip
  \/ CallBothConstructors

PathSpec == PathInit /\ [][PathNext]_vars

(***************************************************************************)
(* Category paths: ancestors.                                              *)
(***************************************************************************)
\* C22: for valid category paths a and d, isAncestorOf(a, d) is true exactly
\* when a differs from d and the segments of a are a proper prefix of the
\* segments of d; so the root is an ancestor of every other path, no path is
\* its own ancestor, and a path whose last segment is only a string prefix
\* of a segment of d is not an ancestor of d.
C22_AncestorIsProperPrefix ==
  last.op = "isAncestorOf" =>
    LET a == last.ancestor
        d == last.descendant
        IsProperPrefix(prefix, list) ==
          /\ Len(prefix) < Len(list)
          /\ \A i \in DOMAIN prefix : prefix[i] = list[i]
    IN  /\ last.result <=>
             (a # d /\ IsProperPrefix(getSegments(a), getSegments(d)))
        /\ (a = <<"/">> /\ d # <<"/">>) => last.result
        /\ a = d => ~last.result

\* C22 witness: "/a" is a string prefix of "/ab" and is not its ancestor.
C22_Witness ==
  /\ last.op = "isAncestorOf"
  /\ last.ancestor = <<"/", "a">>
  /\ last.descendant = <<"/", "a", "b">>
  /\ ~last.result

(***************************************************************************)
(* Branded identifiers.  A brand is a phantom property of the static type: *)
(* every constructor is a cast and returns the string it was given.        *)
(***************************************************************************)
IdKinds == {"ArticleId", "AuthorId", "CategoryId", "TagId", "MediaId", "VersionId"}

createArticleId(id) == id

\* createAuthorId that ignores the string it is given.
createAuthorIdConstant(id) == "x"

createAuthorId(id) == id

createCategoryId(id) == id

createTagId(id) == id

createMediaId(id) == id

createVersionId(id) == id

\* Tag<string, A> is assignable to Tag<string, B> only when the two tags
\* are the same literal type.
Assignable(from, to) == from = to

(***************************************************************************)
(* Well-typed transition values.                                           *)
(***************************************************************************)
\* The values of a transition type: the two ends are any statuses of the
\* declared variants and the fields of the transition are independent of
\* them.
ValuesOf(type) ==
  LET Instants   == {0, 1}
      Someone    == {"w1", "e1"}
      Notes      == {"outdated", "duplicate"}
      Drafts     == { DraftStatus(e) : e \in EditableBySets }
      Reviewings == { ReviewingStatus(r, 0, "w1") : r \in Reviewers }
      Publisheds == { PublishedStatus(0, "p1", u) : u \in Urls }
      Archiveds  ==
        { ArchivedStatus(t, a, r, p) :
            t \in Instants, a \in Someone, r \in Notes, p \in {"draft", "published"} }
  IN  CASE type = "submitForReview" ->
             { [from |-> f, to |-> t, submittedBy |-> a, reviewer |-> r,
                submittedAt |-> i] :
                 f \in Drafts, t \in Reviewings, a \in Someone, r \in Reviewers,
                 i \in Instants }
        [] type = "approveAndPublish" ->
             { [from |-> f, to |-> t, publishedBy |-> a, publishedAt |-> i,
                url |-> u] :
                 f \in Reviewings, t \in Publisheds, a \in Someone, i \in Instants,
                 u \in Urls }
        [] type = "rejectReview" ->
             { [from |-> f, to |-> t, rejectedBy |-> a, rejectedAt |-> i,
                reason |-> r, editableBy |-> e] :
                 f \in Reviewings, t \in Drafts, a \in Someone, i \in Instants,
                 r \in Reasons, e \in EditableBySets }
        [] type = "archiveDraft" ->
             { [from |-> f, to |-> t, archivedBy |-> a, archivedAt |-> i,
                reason |-> r] :
                 f \in Drafts, t \in Archiveds, a \in Someone, i \in Instants,
                 r \in Notes }
        [] type = "archivePublished" ->
             { [from |-> f, to |-> t, archivedBy |-> a, archivedAt |-> i,
                reason |-> r] :
                 f \in Publisheds, t \in Archiveds, a \in Someone, i \in Instants,
                 r \in Notes }

(***************************************************************************)
(* The identifier constructors and the transition guards applied to inputs *)
(* drawn from bounded sets.                                                *)
(***************************************************************************)
TypeInit ==
  /\ last \in { [op |-> "input", kinds |-> kinds, ids |-> ids] :
                  kinds \in IdKinds \X IdKinds,
                  ids \in {"x", "author-789"} \X {"x", "author-789"} }
                \cup UNION { { [op |-> "input", type |-> type, transition |-> t] :
                                 t \in ValuesOf(type) } : type \in TransitionKinds }
  /\ article = NoArticle
  /\ versions = <<>>
  /\ past = <<>>
  /\ now = 0
  /\ won = [v \in 1..MaxVersion |-> <<>>]

\* Two identifiers are created and compared; `assignable` is the verdict of
\* the type checker on passing the first where the second kind is expected.
CallCreateIds ==
  /\ "kinds" \in DOMAIN last
  /\ LET createId(kind, id) ==
           CASE kind = "ArticleId"  -> createArticleId(id)
             [] kind = "AuthorId"   -> createAuthorId(id)
             [] kind = "CategoryId" -> createCategoryId(id)
             [] kind = "TagId"      -> createTagId(id)
             [] kind = "MediaId"    -> createMediaId(id)
             [] kind = "VersionId"  -> createVersionId(id)
     IN  Answer([op |-> "createIds", kinds |-> last.kinds, ids |-> last.ids,
                 first  |-> createId(last.kinds[1], last.ids[1]),
                 second |-> createId(last.kinds[2], last.ids[2]),
                 assignable |-> Assignable(last.kinds[1], last.kinds[2])])

CallGuards ==
  /\ "transition" \in DOMAIN last
  /\ Answer([op |-> "guards", type |-> last.type, transition |-> last.transition,
             result |-> [ submitForReview   |-> isSubmitForReview(last.transition),
                          approveAndPublish |-> isApproveAndPublish(last.transition),
                          rejectReview      |-> isRejectReview(last.transition),
                          archiveDraft      |-> isArchiveDraft(last.transition),
                          archivePublished  |-> isArchivePublished(last.transition) ]])

TypeNext ==
  \/ CallCreateIds
  \/ CallGuards

TypeSpec == TypeInit /\ [][TypeNext]_vars

\* C23 as stated: two identifiers of different kinds are never equal nor
\* accepted one for the other, even when created from the same string, and
\* two identifiers of the same kind are equal exactly when their strings are.
C23_KindsNeverEqual ==
  last.op = "createIds" =>
    IF last.kinds[1] # last.kinds[2]
      THEN last.first # last.second /\ ~last.assignable
      ELSE (last.first = last.second) <=> (last.ids[1] = last.ids[2])

\* C23 amended: an identifier is the string it was created from, so two
\* identifiers are equal exactly when their strings are equal, whatever
\* their kinds; the kind is told apart by the static type only, which
\* accepts an identifier for another exactly when the kinds are the same.
C23_IdsAreTheirStrings ==
  last.op = "createIds" =>
    /\ last.first = last.ids[1]
    /\ last.second = last.ids[2]
    /\ (last.first = last.second) <=> (last.ids[1] = last.ids[2])
    /\ last.assignable <=> (last.kinds[1] = last.kinds[2])

\* C23 witness: createAuthorId('x') and createArticleId('x') are the same
\* value and the type checker rejects the one for the other.
C23_Witness ==
  /\ last.op = "createIds"
  /\ last.kinds = <<"AuthorId", "ArticleId">>
  /\ last.ids = <<"x", "x">>
  /\ last.first = last.second
  /\ ~last.assignable

\* C25: for every transition value exactly one of the five guards is true,
\* and it is the guard of the transition type whose declared `from` and
\* `to` variants are the statuses of the value.
C25_ExactlyOneGuard ==
  last.op = "guards" =>
    LET t == last.transition
    IN  /\ Cardinality({ k \in TransitionKinds : last.result[k] }) = 1
        /\ \A k \in TransitionKinds :
             /\ last.result[k] <=> (k = last.type)
             /\ last.result[k] <=>
                  (EdgeFrom(k) = t.from.status /\ EdgeTo(k) = t.to.status)

\* C25 witness: an ArchivePublished value is recognised by isArchivePublished
\* and not by isArchiveDraft, which shares its destination.
C25_Witness ==
  /\ last.op = "guards"
  /\ last.type = "archivePublished"
  /\ last.result.archivePublished
  /\ ~last.result.archiveDraft

C27_CreateSlugIdempotent ==
  /\ last.op = "createSlugAgain" => last.result = last.first
  /\ ( /\ last.op = "createSlug"
       /\ SlugShaped(last.input)
       /\ Len(last.input) \in MinSlugLength..MaxSlugLength )
       => last.result = Ok(last.input)

\* C27 witness: createSlug turned an input into another string, and gave
\* that string back when applied to it.
C27_Witness ==
  /\ last.op = "createSlugAgain"
  /\ last.first.ok
  /\ last.first.value # last.input
  /\ last.result = Ok(last.first.value)

(***************************************************************************)
(* Category paths: parents and round trips.                                *)
(***************************************************************************)
\* C26: the parent of a valid path other than the root is a valid path one
\* level up and an ancestor of the path; going from parent to parent from a
\* path p reaches the root after exactly getLevel(p) applications, at most
\* 5, and the application after that returns null.
C26_ParentChain ==
  last.op = "getParentPath" =>
    LET p      == last.path
        parent == last.result
    IN  /\ PathShaped(p)
        /\ getLevel(p) = getLevel(last.start) - (last.steps - 1)
        /\ last.steps <= getLevel(last.start) + 1
        /\ getLevel(last.start) <= MaxDepth
        /\ IF p = <<"/">>
             THEN /\ parent = NullPath
                  /\ last.steps = getLevel(last.start) + 1
             ELSE /\ PathShaped(parent)
                  /\ createCategoryPathFromString(parent) = Ok(parent)
                  /\ getLevel(parent) = getLevel(p) - 1
                  /\ isAncestorOf(parent, p)
                  /\ (parent = <<"/">>) <=> (last.steps = getLevel(last.start))

\* C26 witness: from a path of five segments the sixth application of
\* getParentPath is made on the root and returns null.
C26_Witness ==
  /\ last.op = "getParentPath"
  /\ getLevel(last.start) = MaxDepth
  /\ last.steps = MaxDepth + 1
  /\ last.path = <<"/">>
  /\ last.result = NullPath

\* C28 as stated: every valid path p, the root included, is returned by
\* createCategoryPathFromString(p) and by
\* createCategoryPathFromSegments(getSegments(p)); and for every list of
\* segments the two constructors give the same result.
C28_RoundTripAlways ==
  /\ last.op = "roundTrip" =>
       /\ last.fromString = Ok(last.path)
       /\ last.fromSegments = Ok(last.path)
  /\ last.op = "bothConstructors" => last.fromSegments = last.fromString

\* C28 amended: every valid path p is returned by
\* createCategoryPathFromString(p), and every valid path but the root by
\* createCategoryPathFromSegments(getSegments(p)); the root has no segments
\* and the segment-array constructor rejects them.  The two constructors
\* give the same result for every list that has a non-empty segment and no
\* "/" inside a segment; for a list without a non-empty segment the string
\* constructor gives the root and the segment-array constructor an error.
C28_RoundTrip ==
  /\ last.op = "roundTrip" =>
       /\ last.fromString = Ok(last.path)
       /\ IF last.path = <<"/">>
            THEN /\ last.segments = <<>>
                 /\ last.fromSegments =
                      Err(validationError("CategoryPath cannot be empty"))
            ELSE last.fromSegments = Ok(last.path)
  /\ last.op = "bothConstructors" =>
       IF \A i \in DOMAIN last.segments : last.segments[i] = <<>>
         THEN /\ last.fromString = Ok(<<"/">>)
              /\ last.fromSegments =
                   Err(validationError("CategoryPath cannot be empty"))
         ELSE (\A i \in DOMAIN last.segments :
                 \A j \in DOMAIN last.segments[i] : last.segments[i][j] # "/")
                => last.fromSegments = last.fromString

\* C28 witness: the root is returned by the string constructor and its
\* empty list of segments is rejected by the segment-array constructor.
C28_Witness ==
  /\ last.op = "roundTrip"
  /\ last.path = <<"/">>
  /\ last.fromString = Ok(<<"/">>)
  /\ ~last.fromSegments.ok

(***************************************************************************)
(* Helpers of the entity and helpers of the status.                        *)
(***************************************************************************)
\* C30: on every article the helpers of the entity and the helpers of the
\* status agree: isPublished, isArchived and getPublishedDate give the same
\* answer, isEditable(article) is isDraft(article.status); and exactly one
\* of isDraft, isUnderReview, isPublished, isArchived is true of the status.
C30_HelpersAgree ==
  last.op = "helpers" =>
    LET a  == last.ofArticle
        st == last.ofStatus
    IN  /\ a.isPublished = st.isPublished
        /\ a.isArchived = st.isArchived
        /\ a.isEditable = st.isDraft
        /\ a.getPublishedDate = st.getPublishedDate
        /\ Cardinality({ g \in {"isDraft", "isUnderReview", "isPublished", "isArchived"} :
                           st[g] }) = 1
        /\ st.isDraft <=> article.status.status = "draft"
        /\ st.isUnderReview <=> article.status.status = "reviewing"
        /\ st.isPublished <=> article.status.status = "published"
        /\ st.isArchived <=> article.status.status = "archived"

\* C30 witness: on a published article both levels answer published, with
\* the date of publication, and neither answers editable nor archived.
C30_Witness ==
  /\ last.op = "helpers"
  /\ article.status.status = "published"
  /\ last.ofArticle.isPublished /\ last.ofStatus.isPublished
  /\ last.ofArticle.getPublishedDate = article.status.publishedAt
  /\ ~last.ofArticle.isEditable /\ ~last.ofArticle.isArchived

====
